---- MODULE Spec2Model ----
(***************************************************************************)
(* Model of sabnzbd/nzbparser.py: the line/regex parser                    *)
(* (nzbfile_regex_parser), the element-tree parser (the rest of            *)
(* nzbfile_parser) and the ingestion entry points process_single_nzb and   *)
(* process_nzb_archive_file.                                               *)
(*                                                                         *)
(* A document is a sequence of lines.  A line is a record whose field k    *)
(* names the line shape that the regular expressions of                    *)
(* nzbfile_regex_parser tell apart; the other fields hold the raw text of  *)
(* the attributes and of the element text, exactly as written in the file. *)
(***************************************************************************)
EXTENDS Integers, Sequences, FiniteSets, TLC

VARIABLES
    doc,        \* raw_data: the decoded document, a sequence of lines
    noid,       \* ordinal of the NzbFile whose id assignment fails (0: none)
    pc,         \* position of the control flow
    rx,         \* local variables of nzbfile_regex_parser
    sx,         \* local variables of the tree part of nzbfile_parser
    nzo,        \* the NzbObject under construction
    admin,      \* nzf_ids that have a persisted side-artifact in admin_path
    made,       \* nzf_ids of the NzbFiles created in the current parser pass
    ids,        \* number of nzf_ids handed out so far
    rjob,       \* what nzbfile_regex_parser returned and left in the nzo
    tried,      \* the parsers attempted on the document so far, in order
    call,       \* parameters and locals of the entry point that is running
    queue,      \* sabnzbd.NzbQueue: the jobs queued, in order
    disk,       \* whether the file at path exists
    ret,        \* <<>> while running, then <<status, nzo_ids>> as returned
    _GROWL,     \* growler._GROWL: the notifier after registration
    _GROWL_REG, \* growler._GROWL_REG: successful registration
    sg,         \* per thread: position and locals of its send_growl call
    cfg         \* position of the thread that runs reset_growl

vars == <<doc, noid, pc, rx, sx, nzo, admin, made, ids, rjob, tried,
          call, queue, disk, ret, _GROWL, _GROWL_REG, sg, cfg>>

\* the state of growler.py, which nzbparser.py does not touch
growler == <<_GROWL, _GROWL_REG, sg, cfg>>

\* what the parsers do not touch
outer == <<call, queue, disk, ret>>

-----------------------------------------------------------------------------
(* Bounds of the model.                                                    *)

\* most segment lines in the varied file element of a generated document
MaxSegs == 2

-----------------------------------------------------------------------------
(* Line shapes.                                                            *)

\* An integer attribute (bytes, number, date) is <<n>> when its text is the
\* integer n, and <<>> when the attribute is absent or is not an integer:
\* int() raises on both.
NoInt == <<>>

XmlDecl   == [k |-> "xmldecl", enc |-> TRUE]    \* <?xml ... encoding="x"?>
NzbTag    == [k |-> "nzbtag"]                   \* <nzb xmlns="...">
HeadOpen  == [k |-> "head"]
HeadClose == [k |-> "endhead"]
SegsOpen  == [k |-> "segments"]
SegsClose == [k |-> "endsegments"]
FileClose == [k |-> "endfile"]
EndNzb    == [k |-> "endnzb"]
Blank     == [k |-> "blank"]                    \* the line "\n"
Ws        == [k |-> "ws"]                       \* spaces and "\n"
Junk      == [k |-> "junk"]                     \* a cut or garbled line

Meta(t, x)      == [k |-> "meta", type |-> t, text |-> x]
FileOpen(s, d)  == [k |-> "file", subject |-> s, date |-> d]
Group(x)        == [k |-> "group", text |-> x]
Seg(n, b, x)    == [k |-> "segment", number |-> n, bytes |-> b, text |-> x]


-----------------------------------------------------------------------------
(* The generated documents.                                                *)

SeqsUpTo(S, n) == UNION {[1..m -> S] : m \in 0..n}

A1 == Seg(<<1>>, <<100>>, "a")
B2 == Seg(<<2>>, <<2^23 - 1>>, "b")

SegLines ==
    { A1, B2,
      Seg(<<1>>, <<100>>, "c&amp;d"),   \* part 1 again, other id, an entity
      Seg(<<2>>, <<0>>, "z"),
      Seg(<<3>>, <<-1>>, "n"),
      Seg(<<3>>, <<2^23>>, "m"),
      Seg(<<2>>, NoInt, "q") }          \* no bytes attribute

FileBlock(s, d, g, segs) ==
    <<FileOpen(s, d), Group(g), SegsOpen>> \o segs \o <<SegsClose, FileClose>>

FileHeads ==
    { <<"s", <<5>>, "alt.a">>, <<"s", NoInt, "alt.a">>,
      <<"t", <<7>>, "alt.b">>, <<"", <<5>>, "alt.a">> }

MainBlocks ==
    { FileBlock(h[1], h[2], h[3], segs) :
        h \in FileHeads, segs \in SeqsUpTo(SegLines, MaxSegs) }

F0 == FileBlock("s", <<5>>, "alt.a", <<A1>>)

Prolog == <<XmlDecl, NzbTag>>
HeadBlock == <<HeadOpen, Meta("password", "pw"), Meta("", "x"), HeadClose>>

Layouts(main) ==
    { Prolog \o main \o <<EndNzb>>,
      Prolog \o F0 \o main \o <<EndNzb>>,
      Prolog \o main \o F0 \o <<EndNzb>>,
      Prolog \o HeadBlock \o main \o <<EndNzb>> }

WellFormedDocs ==
    UNION {Layouts(m) : m \in MainBlocks}
        \cup {Prolog \o <<EndNzb>>, Prolog \o HeadBlock \o <<EndNzb>>}

\* The documents that the damaged documents are made from.
BaseDocs ==
    Layouts(FileBlock("s", <<5>>, "alt.a", <<A1, B2>>))
        \cup {Prolog \o <<EndNzb>>, Prolog \o F0 \o F0 \o <<EndNzb>>}

Prefix(d, n) == SubSeq(d, 1, n)
Delete(d, i) == SubSeq(d, 1, i - 1) \o SubSeq(d, i + 1, Len(d))
Insert(d, i, l) == SubSeq(d, 1, i - 1) \o <<l>> \o SubSeq(d, i, Len(d))

DamagedOf(d) ==
    UNION { {Prefix(d, i - 1), Prefix(d, i - 1) \o <<Junk>>, Delete(d, i),
             Insert(d, i, d[i]), Insert(d, i, Junk), Insert(d, i, Ws),
             Insert(d, i, Blank)} : i \in 1..Len(d) }

DamagedDocs == UNION {DamagedOf(d) : d \in BaseDocs}

\* <?xml version="1.0"?>: a declaration without encoding
PlainDecl == [k |-> "xmldecl", enc |-> FALSE]

\* A document whose declaration names no encoding, and one with a garbled
\* line after the end tag.
ExtraDocs ==
    { <<PlainDecl, NzbTag>> \o F0 \o <<EndNzb>>,
      Prolog \o F0 \o <<EndNzb, Junk>> }

Docs == WellFormedDocs \cup DamagedDocs \cup ExtraDocs

-----------------------------------------------------------------------------
(* xml.etree.ElementTree.fromstring on a document.                         *)

Openers == {"nzbtag", "head", "file", "segments"}
Closers == {"endnzb", "endhead", "endfile", "endsegments"}
Leaves  == {"meta", "group", "segment"}

CloserOf(k) ==
    CASE k = "nzbtag" -> "endnzb"
      [] k = "head" -> "endhead"
      [] k = "file" -> "endfile"
      [] k = "segments" -> "endsegments"

\* The parse of lines i.. with the open elements in stack (innermost last);
\* root tells whether the root element has been closed already.  TRUE when
\* the text is one well-formed XML document.
RECURSIVE XmlScan(_, _, _, _)
XmlScan(d, i, stack, root) ==
    IF i > Len(d) THEN stack = <<>> /\ root
    ELSE LET k == d[i].k IN
         CASE k \in {"blank", "ws"} -> XmlScan(d, i + 1, stack, root)
           [] k = "xmldecl" -> i = 1 /\ XmlScan(d, i + 1, stack, root)
           [] k = "junk" -> FALSE
           [] k \in Openers ->
                /\ ~(stack = <<>> /\ root)
                /\ XmlScan(d, i + 1, Append(stack, CloserOf(k)), root)
           [] k \in Closers ->
                /\ stack # <<>>
                /\ stack[Len(stack)] = k
                /\ XmlScan(d, i + 1, SubSeq(stack, 1, Len(stack) - 1),
                           Len(stack) = 1)
           [] k \in Leaves ->
                /\ ~(stack = <<>> /\ root)
                /\ XmlScan(d, i + 1, stack, root \/ stack = <<>>)

WellFormedXml(d) == XmlScan(d, 1, <<>>, FALSE)

\* Number of elements open at line i of a well-formed document.
RECURSIVE Depth(_, _)
Depth(d, i) ==
    IF i <= 1 THEN 0
    ELSE Depth(d, i - 1)
            + (IF d[i - 1].k \in Openers THEN 1 ELSE 0)
            - (IF d[i - 1].k \in Closers THEN 1 ELSE 0)

\* The line that closes the element opened at line i (i itself for a leaf).
ElementEnd(d, i) ==
    IF d[i].k \in Leaves THEN i
    ELSE CHOOSE j \in (i + 1)..Len(d) :
            /\ d[j].k \in Closers
            /\ Depth(d, j + 1) = Depth(d, i)
            /\ \A m \in (i + 1)..(j - 1) :
                  ~(d[m].k \in Closers /\ Depth(d, m + 1) = Depth(d, i))

IsElement(l) == l.k \in Openers \cup Leaves

\* The positions in S in ascending order.
RECURSIVE Ascending(_)
Ascending(S) ==
    IF S = {} THEN <<>>
    ELSE LET m == CHOOSE x \in S : \A y \in S : x <= y
         IN <<m>> \o Ascending(S \ {m})

\* element.iter(tag): the element at line i itself and its descendants with
\* that tag, in document order.
Iter(d, i, tag) ==
    Ascending({p \in i..ElementEnd(d, i) : d[p].k = tag})

\* element.find(tag): the first direct child with that tag, 0 for None.
Find(d, i, tag) ==
    LET kids == {p \in (i + 1)..ElementEnd(d, i) :
                    d[p].k = tag /\ Depth(d, p) = Depth(d, i) + 1}
    IN IF kids = {} THEN 0 ELSE CHOOSE p \in kids : \A q \in kids : p <= q

\* The truth value of an Element: it has at least one child element.
Truthy(d, i) ==
    i # 0 /\ \E p \in (i + 1)..ElementEnd(d, i) : IsElement(d[p])

\* The root element: the first element of the document.
Root(d) == CHOOSE p \in 1..Len(d) :
              IsElement(d[p]) /\ \A q \in 1..(p - 1) : ~IsElement(d[q])

\* The text or attribute value the tree holds for the raw text: the parser
\* replaces the entity references.  &amp; is the one the documents contain.
XmlText(raw) == IF raw = "c&amp;d" THEN "c&d" ELSE raw

-----------------------------------------------------------------------------
(* The job (NzbObject) and its files (NzbFile).                            *)

\* time.time() at the start of a parser pass
TimeNow == 9

MetaTypes == {"password"}

NoSum == "(unset)"
NoStamp == [sum |-> 0, n |-> 0]

\* avg_age_sum / nr_files, kept as the exact quotient
Quotient(a, b) == [sum |-> a, n |-> b]

Max(a, b) == IF a >= b THEN a ELSE b

\* A new NzbObject before nzbfile_parser has run on it.
EmptyNzo ==
    [ files |-> <<>>, files_table |-> <<>>, bytes |-> 0, groups |-> <<>>,
      meta |-> [t \in MetaTypes |-> <<>>], avg_stamp |-> NoStamp,
      md5sum |-> NoSum, bad_articles |-> 0, duplicate_articles |-> 0,
      first_articles |-> <<>>, first_articles_count |-> 0, bytes_par2 |-> 0 ]

\* [raw_article_db[partnum] for partnum in sorted(raw_article_db)]
SortedArticles(db) ==
    LET ps == Ascending(DOMAIN db)
    IN [i \in 1..Len(ps) |-> db[ps[i]]]

\* The id a new NzbFile gets: a fresh one, or 0 (None) when the assignment
\* fails; n is the number of NzbFiles the pass has created before.
NewNzfId(n) == IF n + 1 = noid THEN 0 ELSE ids + 1

\* NzbFile.__eq__: same display name and same segments.
NzfEq(a, b) == a.filename = b.filename /\ a.articles = b.articles

\* InFiles without the comparison: no file is ever found in the job.
InFilesNever(nzf, files) == FALSE

\* nzf in nzo.files
InFiles(nzf, files) == \E i \in 1..Len(files) : NzfEq(files[i], nzf)

\* NzbFile.valid: a name, not a file the job has already, an id assigned.
NzfValid(name, articles, id, files) ==
    /\ name # ""
    /\ id # 0
    /\ ~InFiles([filename |-> name, articles |-> articles], files)

\* sabnzbd.nzbstuff.NzbFile(file_date, file_name, raw_article_db_sorted,
\* file_bytes, nzo)
NzbFile(stamp, name, articles, bytes, n, files) ==
    LET id == NewNzfId(n) IN
    [ nzf_id |-> id, filename |-> name, date |-> stamp,
      articles |-> articles, bytes |-> bytes,
      valid |-> NzfValid(name, articles, id, files) ]

\* The admin_path after that NzbFile was created: the data of a file that
\* got an id is persisted under the id.
Saved(nzf) == IF nzf.nzf_id # 0 THEN admin \cup {nzf.nzf_id} ELSE admin

\* The ids handed out after that NzbFile was created.
Taken(nzf) == IF nzf.nzf_id # 0 THEN ids + 1 ELSE ids

\* BadSize with both comparisons strict: 0 and 2^23 pass.
BadSizeStrict(segment_size) == segment_size < 0 \/ segment_size > 2^23

\* The segment size test of both parsers.
BadSize(segment_size) == segment_size <= 0 \/ segment_size >= 2^23

\* nzo.groups after "if g not in nzo.groups: nzo.groups.append(g)"
AddGroup(groups, g) ==
    IF \E i \in 1..Len(groups) : groups[i] = g THEN groups
    ELSE Append(groups, g)

\* nzo.meta after a meta element of that type and text
AddMeta(meta, type, text) ==
    IF type # "" /\ text # ""
    THEN [meta EXCEPT ![type] = Append(@, text)]
    ELSE meta

\* nzo after "nzo.files.append(nzf); nzo.files_table[nzf.nzf_id] = nzf;
\* nzo.bytes += nzf.bytes"
AddFile(job, nzf) ==
    [job EXCEPT !.files = Append(@, nzf),
                !.files_table = (nzf.nzf_id :> nzf) @@ @,
                !.bytes = @ + nzf.bytes]

-----------------------------------------------------------------------------
(* nzbfile_regex_parser(raw_data, nzo)                                     *)

\* file_ids and accepted are history, not locals of the code: the ids
\* entered into raw_article_db in the order they were entered, and the ids
\* of the files added to the job so far, file after file.
RxInit ==
    [ pos |-> 1, linecount |-> 0, open_file_tag |-> 0, success |-> 1,
      raw_article_db |-> <<>>, file_bytes |-> 0, file_name |-> "",
      file_timestamp |-> 0, valid_files |-> 0, avg_age_sum |-> 0,
      md5 |-> "", file_ids |-> <<>>, accepted |-> <<>> ]

\* HeaderScan without the encoding check: the <nzb tag is enough.
RECURSIVE HeaderScanAnyEncoding(_, _, _, _)
HeaderScanAnyEncoding(d, i, cnt, enc) ==
    IF i <= Len(d) /\ d[i].k = "blank"
    THEN HeaderScanAnyEncoding(d, i + 1, cnt, enc)
    ELSE IF cnt + 1 > 10 THEN [ok |-> FALSE, pos |-> i, linecount |-> cnt + 1]
    ELSE IF i > Len(d) THEN HeaderScanAnyEncoding(d, i, cnt + 1, enc)
    ELSE IF d[i].k = "nzbtag"
         THEN [ok |-> TRUE, pos |-> i + 1, linecount |-> cnt + 1]
    ELSE HeaderScanAnyEncoding(d, i + 1, cnt + 1, enc)

\* The header loop from line i on, with cnt non-blank lines read and enc
\* telling whether a line read so far declares an encoding.  Past the end
\* readline() gives "", which is counted like a line.
RECURSIVE HeaderScan(_, _, _, _)
HeaderScan(d, i, cnt, enc) ==
    IF i <= Len(d) /\ d[i].k = "blank" THEN HeaderScan(d, i + 1, cnt, enc)
    ELSE IF cnt + 1 > 10 THEN [ok |-> FALSE, pos |-> i, linecount |-> cnt + 1]
    ELSE IF i > Len(d) THEN HeaderScan(d, i, cnt + 1, enc)
    ELSE IF d[i].k = "nzbtag"
         THEN [ok |-> enc, pos |-> i + 1, linecount |-> cnt + 1]
    ELSE HeaderScan(d, i + 1, cnt + 1,
                    enc \/ (d[i].k = "xmldecl" /\ d[i].enc))

\* An exception inside the try block: success = 0.
RxRaise(locals) == [locals EXCEPT !.success = 0]

Line == doc[rx.pos]
InBody == pc = "rx_body" /\ rx.pos <= Len(doc)
\* the locals once the line is read and counted
Counted == [rx EXCEPT !.pos = @ + 1, !.linecount = @ + 1]

\* Called first by nzbfile_parser: the header loop and the encoding check.
RegexHeader ==
    /\ pc = "np_start"
    /\ tried' = Append(tried, "regex")
    /\ made' = <<>>
    /\ LET h == HeaderScan(doc, 1, 0, FALSE)
           locals == [RxInit EXCEPT !.pos = h.pos, !.linecount = h.linecount]
       IN IF h.ok
          THEN rx' = locals /\ pc' = "rx_body"
          ELSE rx' = RxRaise(locals) /\ pc' = "rx_end"
    /\ UNCHANGED <<growler, doc, noid, sx, nzo, admin, ids, rjob, outer>>

\* if line == "\n": continue
RegexBlank ==
    /\ InBody /\ Line.k = "blank"
    /\ rx' = [rx EXCEPT !.pos = @ + 1]
    /\ UNCHANGED <<growler, doc, noid, pc, sx, nzo, admin, made, ids, rjob, tried, outer>>

\* RxSegment with the repeated part number passed over instead of raised.
RxSegmentLenient(locals, line) ==
    IF locals.open_file_tag = 0 \/ line.bytes = NoInt \/ line.number = NoInt
    THEN RxRaise(locals)
    ELSE LET article_id == line.text
             segment_size == line.bytes[1]
             partnum == line.number[1]
             hashed == [locals EXCEPT !.md5 = @ \o article_id]
         IN IF partnum \in DOMAIN locals.raw_article_db THEN hashed
            ELSE IF BadSize(segment_size) THEN RxRaise(hashed)
            ELSE [hashed EXCEPT
                    !.raw_article_db = (partnum :> <<article_id, segment_size>>) @@ @,
                    !.file_bytes = @ + segment_size,
                    !.file_ids = Append(@, article_id)]

\* The locals after a segment line.
RxSegment(locals, line) ==
    IF locals.open_file_tag = 0 \/ line.bytes = NoInt \/ line.number = NoInt
    THEN RxRaise(locals)
    ELSE LET article_id == line.text
             segment_size == line.bytes[1]
             partnum == line.number[1]
             hashed == [locals EXCEPT !.md5 = @ \o article_id]
         IN IF partnum \in DOMAIN locals.raw_article_db THEN RxRaise(hashed)
            ELSE IF BadSize(segment_size) THEN RxRaise(hashed)
            ELSE [hashed EXCEPT
                    !.raw_article_db = (partnum :> <<article_id, segment_size>>) @@ @,
                    !.file_bytes = @ + segment_size,
                    !.file_ids = Append(@, article_id)]

\* <segment bytes="100" number="1">articleid</segment>
RegexSegment ==
    /\ InBody /\ Line.k = "segment"
    /\ rx' = RxSegment(Counted, Line)
    /\ pc' = IF rx'.success = 1 THEN "rx_body" ELSE "rx_end"
    /\ UNCHANGED <<growler, doc, noid, sx, nzo, admin, made, ids, rjob, tried, outer>>

\* </file>
RegexFileEnd ==
    /\ InBody /\ Line.k = "endfile"
    /\ IF rx.open_file_tag = 0
       THEN /\ rx' = RxRaise(Counted)
            /\ pc' = "rx_end"
            /\ UNCHANGED <<nzo, admin, made, ids>>
       ELSE LET closed == [Counted EXCEPT !.open_file_tag = 0] IN
            IF rx.file_name = ""
            THEN /\ rx' = RxRaise(closed)
                 /\ pc' = "rx_end"
                 /\ UNCHANGED <<nzo, admin, made, ids>>
            ELSE LET nzf == NzbFile(rx.file_timestamp, rx.file_name,
                                    SortedArticles(rx.raw_article_db),
                                    rx.file_bytes, Len(made), nzo.files)
                 IN /\ admin' = Saved(nzf)
                    /\ ids' = Taken(nzf)
                    /\ made' = Append(made, nzf.nzf_id)
                    /\ IF InFiles(nzf, nzo.files)
                       THEN /\ rx' = closed
                            /\ pc' = "rx_body"
                            /\ nzo' = nzo
                       ELSE IF nzf.valid /\ nzf.nzf_id # 0
                       THEN /\ rx' = [closed EXCEPT
                                        !.valid_files = @ + 1,
                                        !.avg_age_sum = @ + rx.file_timestamp,
                                        !.accepted = @ \o rx.file_ids]
                            /\ pc' = "rx_body"
                            /\ nzo' = AddFile(nzo, nzf)
                       ELSE /\ rx' = RxRaise(closed)
                            /\ pc' = "rx_end"
                            /\ nzo' = nzo
    /\ UNCHANGED <<growler, doc, noid, sx, rjob, tried, outer>>

\* </segments>, </groups>, </head>, <groups>, <segments>, <head>, <nzb ...>
RegexIgnorable ==
    /\ InBody
    /\ Line.k \in {"segments", "endsegments", "head", "endhead", "nzbtag"}
    /\ rx' = Counted
    /\ UNCHANGED <<growler, doc, noid, pc, sx, nzo, admin, made, ids, rjob, tried, outer>>

\* RegexFileOpen without the test of open_file_tag: a file opened inside a
\* file starts over.
RegexFileOpenNested ==
    /\ InBody /\ Line.k = "file"
    /\ rx' = [Counted EXCEPT
                !.open_file_tag = 1,
                !.raw_article_db = <<>>,
                !.file_bytes = 0,
                !.file_ids = <<>>,
                !.file_name = Line.subject,
                !.file_timestamp =
                    IF Line.date = NoInt THEN TimeNow ELSE Line.date[1]]
    /\ pc' = "rx_body"
    /\ UNCHANGED <<growler, doc, noid, sx, nzo, admin, made, ids, rjob, tried, outer>>

\* <file ...>
RegexFileOpen ==
    /\ InBody /\ Line.k = "file"
    /\ IF rx.open_file_tag # 0
       THEN rx' = RxRaise(Counted) /\ pc' = "rx_end"
       ELSE /\ rx' = [Counted EXCEPT
                        !.open_file_tag = 1,
                        !.raw_article_db = <<>>,
                        !.file_bytes = 0,
                        !.file_ids = <<>>,
                        !.file_name = Line.subject,
                        !.file_timestamp =
                            IF Line.date = NoInt THEN TimeNow ELSE Line.date[1]]
            /\ pc' = "rx_body"
    /\ UNCHANGED <<growler, doc, noid, sx, nzo, admin, made, ids, rjob, tried, outer>>

\* <group>a.b.a</group>
RegexGroup ==
    /\ InBody /\ Line.k = "group"
    /\ rx' = Counted
    /\ nzo' = [nzo EXCEPT !.groups = AddGroup(@, Line.text)]
    /\ UNCHANGED <<growler, doc, noid, pc, sx, admin, made, ids, rjob, tried, outer>>

\* <meta type="password">password123</meta>
RegexMeta ==
    /\ InBody /\ Line.k = "meta"
    /\ rx' = Counted
    /\ nzo' = [nzo EXCEPT !.meta = AddMeta(@, Line.type, Line.text)]
    /\ UNCHANGED <<growler, doc, noid, pc, sx, admin, made, ids, rjob, tried, outer>>

\* a line of white space
RegexWhitespace ==
    /\ InBody /\ Line.k = "ws"
    /\ rx' = Counted
    /\ UNCHANGED <<growler, doc, noid, pc, sx, nzo, admin, made, ids, rjob, tried, outer>>

\* </nzb>
RegexEndNzb ==
    /\ InBody /\ Line.k = "endnzb"
    /\ rx' = IF rx.open_file_tag # 0 THEN RxRaise(Counted) ELSE Counted
    /\ pc' = "rx_end"
    /\ UNCHANGED <<growler, doc, noid, sx, nzo, admin, made, ids, rjob, tried, outer>>

\* any other line
RegexUnrecognized ==
    /\ InBody /\ Line.k \in {"junk", "xmldecl"}
    /\ rx' = RxRaise(Counted)
    /\ pc' = "rx_end"
    /\ UNCHANGED <<growler, doc, noid, sx, nzo, admin, made, ids, rjob, tried, outer>>

\* "for line in reader" runs out of lines
RegexEof ==
    /\ pc = "rx_body" /\ rx.pos > Len(doc)
    /\ pc' = "rx_end"
    /\ UNCHANGED <<growler, doc, noid, rx, sx, nzo, admin, made, ids, rjob, tried, outer>>

\* nzo after "if success:": final bookkeeping
RxFinal(job, locals) ==
    LET nr_files == Max(1, locals.valid_files)
    IN [job EXCEPT !.avg_stamp = Quotient(locals.avg_age_sum, nr_files),
                   !.md5sum = locals.md5]

\* RxRollbackNzo without "nzo.bytes = 0".
RxRollbackKeepsBytes(job) ==
    [job EXCEPT !.first_articles = <<>>, !.first_articles_count = 0,
                !.bytes_par2 = 0, !.files = <<>>, !.files_table = <<>>]

\* nzo after "else:": remove all data added to the nzo
RxRollbackNzo(job) ==
    [job EXCEPT !.first_articles = <<>>, !.first_articles_count = 0,
                !.bytes_par2 = 0, !.files = <<>>, !.files_table = <<>>,
                !.bytes = 0]

\* admin_path after "for nzf in nzo.files: nzf.remove_admin()"
RxRollbackAdmin(job) ==
    admin \ {job.files[i].nzf_id : i \in 1..Len(job.files)}

\* if success: ... return True
RegexReturnTrue ==
    /\ pc = "rx_end" /\ rx.success = 1
    /\ nzo' = RxFinal(nzo, rx)
    /\ rjob' = [success |-> TRUE, nzo |-> nzo']
    /\ pc' = "rx_true"
    /\ UNCHANGED <<growler, doc, noid, rx, sx, admin, made, ids, tried, outer>>

\* else: ... return False
RegexReturnFalse ==
    /\ pc = "rx_end" /\ rx.success = 0
    /\ admin' = RxRollbackAdmin(nzo)
    /\ nzo' = RxRollbackNzo(nzo)
    /\ rjob' = [success |-> FALSE, nzo |-> nzo']
    /\ pc' = "rx_false"
    /\ UNCHANGED <<growler, doc, noid, rx, sx, made, ids, tried, outer>>

RegexParser ==
    \/ RegexHeader \/ RegexBlank \/ RegexSegment \/ RegexFileEnd
    \/ RegexIgnorable \/ RegexFileOpen \/ RegexGroup \/ RegexMeta
    \/ RegexWhitespace \/ RegexEndNzb \/ RegexUnrecognized \/ RegexEof
    \/ RegexReturnTrue \/ RegexReturnFalse

-----------------------------------------------------------------------------
(* nzbfile_parser(raw_data, nzo): the regex parser first, then the element *)
(* tree.                                                                   *)

\* file_ids and accepted are history, as in RxInit.
SxInit ==
    [ files |-> <<>>, fi |-> 1, segs |-> <<>>, si |-> 1,
      raw_article_db |-> <<>>, file_bytes |-> 0, file_name |-> "",
      file_timestamp |-> 0, valid_files |-> 0, skipped_files |-> 0,
      avg_age_sum |-> 0, md5 |-> "", file_ids |-> <<>>, accepted |-> <<>> ]

\* NzbfileParserReturn without the return: the tree is loaded all the same.
NzbfileParserNoReturn ==
    /\ pc = "rx_true"
    /\ pc' = "tree_start"
    /\ UNCHANGED <<growler, doc, noid, rx, sx, nzo, admin, made, ids, rjob, tried, outer>>

\* if nzbfile_regex_parser(raw_data, nzo): return
NzbfileParserReturn ==
    /\ pc = "rx_true"
    /\ pc' = "np_returned"
    /\ UNCHANGED <<growler, doc, noid, rx, sx, nzo, admin, made, ids, rjob, tried, outer>>

\* otherwise the function goes on to load the data as a tree
NzbfileParserFallback ==
    /\ pc = "rx_false"
    /\ pc' = "tree_start"
    /\ UNCHANGED <<growler, doc, noid, rx, sx, nzo, admin, made, ids, rjob, tried, outer>>

\* nzo.meta after the meta elements at the positions ps[i..]
RECURSIVE HeadMeta(_, _, _, _)
HeadMeta(d, ps, i, meta) ==
    IF i > Len(ps) THEN meta
    ELSE HeadMeta(d, ps, i + 1,
                  AddMeta(meta, XmlText(d[ps[i]].type), XmlText(d[ps[i]].text)))

\* nzo.groups after the group elements at the positions ps[i..]
RECURSIVE FileGroups(_, _, _, _)
FileGroups(d, ps, i, groups) ==
    IF i > Len(ps) THEN groups
    ELSE FileGroups(d, ps, i + 1, AddGroup(groups, XmlText(d[ps[i]].text)))

\* fromstring(raw_data), which raises on a text that is no XML document,
\* and the header
XmlFromString ==
    /\ pc = "tree_start"
    /\ tried' = Append(tried, "tree")
    /\ made' = <<>>
    /\ IF ~WellFormedXml(doc)
       THEN pc' = "np_raised" /\ UNCHANGED <<sx, nzo>>
       ELSE LET head == Find(doc, Root(doc), "head") IN
            /\ nzo' = IF Truthy(doc, head)
                      THEN [nzo EXCEPT !.meta =
                              HeadMeta(doc, Iter(doc, head, "meta"), 1, @)]
                      ELSE nzo
            /\ sx' = [SxInit EXCEPT !.files = Iter(doc, Root(doc), "file")]
            /\ pc' = "xml_files"
    /\ UNCHANGED <<growler, doc, noid, rx, admin, ids, rjob, outer>>

\* for file in nzb_tree.iter("file"): subject, date, groups, segments
XmlFileBegin ==
    /\ pc = "xml_files" /\ sx.fi <= Len(sx.files)
    /\ LET f == sx.files[sx.fi]
           segments == Find(doc, f, "segments")
       IN /\ sx' = [sx EXCEPT
                      !.file_name = XmlText(doc[f].subject),
                      !.file_timestamp =
                          IF doc[f].date = NoInt THEN TimeNow ELSE doc[f].date[1],
                      !.raw_article_db = <<>>,
                      !.file_bytes = 0,
                      !.file_ids = <<>>,
                      !.segs = IF Truthy(doc, segments)
                               THEN Iter(doc, segments, "segment") ELSE <<>>,
                      !.si = 1]
          /\ nzo' = [nzo EXCEPT !.groups =
                        FileGroups(doc, Iter(doc, f, "group"), 1, @)]
    /\ pc' = "xml_segs"
    /\ UNCHANGED <<growler, doc, noid, rx, admin, made, ids, rjob, tried, outer>>

\* The locals after a segment element; int() of a missing attribute raises
\* and the element is passed over.
SxSegment(locals, line) ==
    IF line.bytes = NoInt \/ line.number = NoInt THEN locals
    ELSE LET article_id == XmlText(line.text)
             segment_size == line.bytes[1]
             partnum == line.number[1]
             hashed == [locals EXCEPT !.md5 = @ \o article_id]
         IN IF partnum \in DOMAIN locals.raw_article_db THEN hashed
            ELSE IF BadSize(segment_size) THEN hashed
            ELSE [hashed EXCEPT
                    !.raw_article_db = (partnum :> <<article_id, segment_size>>) @@ @,
                    !.file_bytes = @ + segment_size,
                    !.file_ids = Append(@, article_id)]

\* SxCount with every repeated part counted, also one with the same id.
SxCountEveryRepeat(job, locals, line) ==
    IF line.bytes = NoInt \/ line.number = NoInt THEN job
    ELSE LET partnum == line.number[1] IN
         IF partnum \in DOMAIN locals.raw_article_db
         THEN [job EXCEPT !.duplicate_articles = @ + 1]
         ELSE IF BadSize(line.bytes[1])
         THEN [job EXCEPT !.bad_articles = @ + 1]
         ELSE job

\* The job's counters of bad articles after a segment element.
SxCount(job, locals, line) ==
    IF line.bytes = NoInt \/ line.number = NoInt THEN job
    ELSE LET partnum == line.number[1] IN
         IF partnum \in DOMAIN locals.raw_article_db
         THEN IF XmlText(line.text) # locals.raw_article_db[partnum][1]
              THEN [job EXCEPT !.duplicate_articles = @ + 1]
              ELSE job
         ELSE IF BadSize(line.bytes[1])
         THEN [job EXCEPT !.bad_articles = @ + 1]
         ELSE job

\* for segment in file.find("segments").iter("segment")
XmlSegment ==
    /\ pc = "xml_segs" /\ sx.si <= Len(sx.segs)
    /\ LET line == doc[sx.segs[sx.si]] IN
       /\ sx' = [SxSegment(sx, line) EXCEPT !.si = @ + 1]
       /\ nzo' = SxCount(nzo, sx, line)
    /\ UNCHANGED <<growler, doc, noid, pc, rx, admin, made, ids, rjob, tried, outer>>

\* XmlFileEnd with the file that cannot be imported raised as an error
\* instead of skipped.
XmlFileEndAborts ==
    /\ pc = "xml_segs" /\ sx.si > Len(sx.segs)
    /\ LET nzf == NzbFile(sx.file_timestamp, sx.file_name,
                          SortedArticles(sx.raw_article_db),
                          sx.file_bytes, Len(made), nzo.files)
           next == [sx EXCEPT !.fi = @ + 1]
       IN /\ ids' = Taken(nzf)
          /\ made' = Append(made, nzf.nzf_id)
          /\ admin' = Saved(nzf)
          /\ IF InFiles(nzf, nzo.files)
             THEN sx' = next /\ nzo' = nzo /\ pc' = "xml_files"
             ELSE IF sx.file_name # "" /\ nzf.valid /\ nzf.nzf_id # 0
             THEN /\ sx' = [next EXCEPT
                              !.valid_files = @ + 1,
                              !.avg_age_sum = @ + sx.file_timestamp,
                              !.accepted = @ \o sx.file_ids]
                  /\ nzo' = AddFile(nzo, nzf)
                  /\ pc' = "xml_files"
             ELSE sx' = sx /\ nzo' = nzo /\ pc' = "np_raised"
    /\ UNCHANGED <<growler, doc, noid, rx, rjob, tried, outer>>

\* Create NZF, skip the file the job has already, add the valid one
XmlFileEnd ==
    /\ pc = "xml_segs" /\ sx.si > Len(sx.segs)
    /\ LET nzf == NzbFile(sx.file_timestamp, sx.file_name,
                          SortedArticles(sx.raw_article_db),
                          sx.file_bytes, Len(made), nzo.files)
           next == [sx EXCEPT !.fi = @ + 1]
       IN /\ ids' = Taken(nzf)
          /\ made' = Append(made, nzf.nzf_id)
          /\ IF InFiles(nzf, nzo.files)
             THEN /\ sx' = next
                  /\ nzo' = nzo
                  /\ admin' = Saved(nzf)
             ELSE IF sx.file_name # "" /\ nzf.valid /\ nzf.nzf_id # 0
             THEN /\ sx' = [next EXCEPT
                              !.valid_files = @ + 1,
                              !.avg_age_sum = @ + sx.file_timestamp,
                              !.accepted = @ \o sx.file_ids]
                  /\ nzo' = AddFile(nzo, nzf)
                  /\ admin' = Saved(nzf)
             ELSE /\ sx' = [next EXCEPT !.skipped_files = @ + 1]
                  /\ nzo' = nzo
                  /\ admin' = Saved(nzf) \ {nzf.nzf_id}
    /\ pc' = "xml_files"
    /\ UNCHANGED <<growler, doc, noid, rx, rjob, tried, outer>>

\* nzo after the final bookkeeping
SxFinal(job, locals) ==
    LET nr_files == Max(1, locals.valid_files)
    IN [job EXCEPT !.avg_stamp = Quotient(locals.avg_age_sum, nr_files),
                   !.md5sum = locals.md5]

\* Final bookkeeping
XmlReturn ==
    /\ pc = "xml_files" /\ sx.fi > Len(sx.files)
    /\ nzo' = SxFinal(nzo, sx)
    /\ pc' = "np_returned"
    /\ UNCHANGED <<growler, doc, noid, rx, sx, admin, made, ids, rjob, tried, outer>>

TreeParser ==
    \/ XmlFromString \/ XmlFileBegin \/ XmlSegment \/ XmlFileEnd \/ XmlReturn

NzbfileParser ==
    \/ RegexParser \/ NzbfileParserReturn \/ NzbfileParserFallback
    \/ TreeParser

-----------------------------------------------------------------------------
(* growler.py: the module's globals when the module is loaded.             *)

\* most threads that run send_growl at the same time
MaxThreads == 2

\* a thread on which send_growl has not been started; error is "unbound"
\* until line 193 assigns it; registers, notifies and accepted are history:
\* the calls of register_growl and of notify made, and whether a notify
\* call was accepted by the server
NotStarted ==
    [ pc |-> "idle", n |-> 0, error |-> "unbound", ret |-> "running",
      registers |-> 0, notifies |-> 0, accepted |-> FALSE ]

GrowlerLoaded ==
    /\ _GROWL = "None"
    /\ _GROWL_REG = FALSE
    /\ sg = [t \in 1..MaxThreads |-> NotStarted]
    /\ cfg = "idle"

-----------------------------------------------------------------------------
(* nzbfile_parser applied to the generated documents.                      *)

NoJob == [success |-> FALSE, nzo |-> EmptyNzo]

\* no entry point is running: nzbfile_parser is applied on its own
NoCall == [fn |-> "none"]

\* a new NzbObject, on which no parser has run yet
NewObject ==
    /\ rx = RxInit
    /\ sx = SxInit
    /\ nzo = EmptyNzo
    /\ made = <<>>
    /\ rjob = NoJob
    /\ tried = <<>>

\* a new NzbObject replaces the one before
NewObjectNext ==
    /\ rx' = RxInit
    /\ sx' = SxInit
    /\ nzo' = EmptyNzo
    /\ made' = <<>>
    /\ rjob' = NoJob
    /\ tried' = <<>>

Init ==
    /\ \/ doc \in Docs /\ noid = 0
       \/ doc \in BaseDocs /\ noid \in {1, 2}
    /\ pc = "np_start"
    /\ NewObject
    /\ admin = {}
    /\ ids = 0
    /\ call = NoCall
    /\ queue = <<>>
    /\ disk = TRUE
    /\ ret = <<>>
    /\ GrowlerLoaded

Next == NzbfileParser

Spec == Init /\ [][Next]_vars

-----------------------------------------------------------------------------
(* Both parsers applied to the same document, each to a new job: the tree  *)
(* part of nzbfile_parser runs whatever the regex parser returned.         *)

ApplyTreeParser ==
    /\ pc \in {"rx_true", "rx_false"}
    /\ nzo' = EmptyNzo
    /\ pc' = "tree_start"
    /\ UNCHANGED <<growler, doc, noid, rx, sx, admin, made, ids, rjob, tried, outer>>

NextBoth == RegexParser \/ ApplyTreeParser \/ TreeParser

SpecBoth == Init /\ [][NextBoth]_vars

-----------------------------------------------------------------------------
(* The collaborators of the entry points: NzbObject, NzbQueue, the file.   *)

\* most members of a generated archive
MaxMembers == 2

\* the id of the "future" job that waits in the queue for its payload
FutureId == 7

HasStartTag(d) == \E i \in 1..Len(d) : d[i].k = "nzbtag"    \* "<nzb" found
HasEndTag(d) == \E i \in 1..Len(d) : d[i].k = "endnzb"      \* "</nzb" found

\* The dedup hashes of the jobs in the queue.
QueuedSums(q) == {q[i].md5sum : i \in {j \in 1..Len(q) : ~q[j].future}}

\* How the construction of the NzbObject ends once nzbfile_parser is done:
\* the parser's exception goes on to the caller; a job without files is
\* empty (ValueError); a job whose hash is that of a queued job is a
\* duplicate (TypeError).
Construction ==
    IF pc = "np_raised" THEN "obj_error"
    ELSE IF nzo.files = <<>> THEN "obj_empty"
    ELSE IF nzo.md5sum \in QueuedSums(queue) THEN "obj_duplicate"
    ELSE "obj_ok"

\* nzbstuff.NzbObject(...), after its call of nzbfile_parser
NzbObject ==
    /\ call.fn # "none"
    /\ pc \in {"np_returned", "np_raised"}
    /\ pc' = Construction
    /\ UNCHANGED <<growler, doc, noid, rx, sx, nzo, admin, made, ids, rjob, tried,
                   outer>>

\* NzbQueue.remove(nzo_id)
QueueRemove(q, id) == SelectSeq(q, LAMBDA j : j.nzo_id # id)

\* the id NzbQueue.add gives a job that has none yet
RECURSIVE FreshId(_, _)
FreshId(q, i) ==
    IF \E j \in 1..Len(q) : q[j].nzo_id = i THEN FreshId(q, i + 1) ELSE i

\* the job as the queue keeps it
Queued(id, name, password) ==
    [ nzo_id |-> id, md5sum |-> nzo.md5sum, future |-> FALSE,
      nzbname |-> name, password |-> password ]

\* "if nzo_id: NzbQueue.remove(nzo_id); nzo.nzo_id = nzo_id" and
\* "NzbQueue.add(nzo)": the queue afterwards
AddToQueue(q, nzo_id, name, password) ==
    IF nzo_id # 0
    THEN Append(QueueRemove(q, nzo_id), Queued(nzo_id, name, password))
    ELSE Append(q, Queued(FreshId(q, 1), name, password))

\* the id NzbQueue.add returns
AddedId(q, nzo_id) == IF nzo_id # 0 THEN nzo_id ELSE FreshId(q, 1)

\* a job queued earlier, with the hash of the file of A1 and B2
OldJob ==
    [ nzo_id |-> 1, md5sum |-> "ab", future |-> FALSE, nzbname |-> <<"old">>,
      password |-> "" ]

\* the placeholder of a job whose payload is still to come
FutureJob ==
    [ nzo_id |-> FutureId, md5sum |-> NoSum, future |-> TRUE,
      nzbname |-> <<>>, password |-> "" ]

\* the queues a call can find: with nzo_id given, its placeholder is queued
Queues(nzo_id) ==
    {old \o (IF nzo_id # 0 THEN <<FutureJob>> ELSE <<>>) :
        old \in {<<>>, <<OldJob>>}}

-----------------------------------------------------------------------------
(* process_single_nzb(filename, path, keep, nzbname, password, nzo_id)     *)

\* filename.replace(old, new) on a name kept as its sequence of parts, old
\* being the two parts <<".nzb", ext>> and new the part ".nzb"
RECURSIVE Replace(_, _)
Replace(name, ext) ==
    IF Len(name) < 2 THEN name
    ELSE IF name[1] = ".nzb" /\ name[2] = ext
         THEN <<".nzb">> \o Replace(SubSeq(name, 3, Len(name)), ext)
         ELSE <<name[1]>> \o Replace(Tail(name), ext)

\* the filename after the test of the first two bytes of the file
Sniff(check_bytes, filename) ==
    IF check_bytes = "1f8b" THEN Replace(filename, ".gz")
    ELSE IF check_bytes = "BZ" THEN Replace(filename, ".bz2")
    ELSE filename

\* nzb_reader_handler, chosen by the first two bytes of the file
Handler(check_bytes) ==
    IF check_bytes = "1f8b" THEN "gzip.GzipFile"
    ELSE IF check_bytes = "BZ" THEN "bz2.BZ2File"
    ELSE "open"

\* the file names and first two bytes of the generated sources
Sources ==
    { <<(<<"job", ".nzb">>), "<?">>,
      <<(<<"job", ".nzb", ".gz">>), "1f8b">>,
      <<(<<"job", ".nzb", ".bz2">>), "BZ">> }

\* PsnRead with the unreadable file removed unless it is to be kept.
PsnReadDiscards ==
    /\ pc = "psn_start"
    /\ \/ /\ ret' = <<-2, call.nzo_ids>>
          /\ pc' = "done"
          /\ call' = call
          /\ disk' = call.keep
       \/ /\ LET filename == Sniff(call.check_bytes, call.filename) IN
             call' = [call EXCEPT
                        !.filename = filename,
                        !.nzbname = IF filename # <<>> /\ @ = <<>>
                                    THEN filename ELSE @]
          /\ pc' = "np_start"
          /\ ret' = ret
          /\ disk' = disk
    /\ UNCHANGED <<growler, doc, noid, rx, sx, nzo, admin, made, ids, rjob, tried,
                   queue>>

\* open(path), the first two bytes, the reader, the data; OSError: -2
PsnRead ==
    /\ pc = "psn_start"
    /\ \/ /\ ret' = <<-2, call.nzo_ids>>
          /\ pc' = "done"
          /\ call' = call
       \/ /\ LET filename == Sniff(call.check_bytes, call.filename) IN
             call' = [call EXCEPT
                        !.filename = filename,
                        !.nzbname = IF filename # <<>> /\ @ = <<>>
                                    THEN filename ELSE @]
          /\ pc' = "np_start"
          /\ ret' = ret
    /\ UNCHANGED <<growler, doc, noid, rx, sx, nzo, admin, made, ids, rjob, tried,
                   queue, disk>>

\* except TypeError: duplicate, ignore
PsnDuplicate ==
    /\ call.fn = "single" /\ pc = "obj_duplicate"
    /\ queue' = IF call.nzo_id # 0 THEN QueueRemove(queue, call.nzo_id)
                ELSE queue
    /\ pc' = "psn_remove"
    /\ UNCHANGED <<growler, doc, noid, rx, sx, nzo, admin, made, ids, rjob, tried,
                   call, disk, ret>>

\* except ValueError: empty
PsnEmpty ==
    /\ call.fn = "single" /\ pc = "obj_empty"
    /\ ret' = <<1, call.nzo_ids>>
    /\ pc' = "done"
    /\ UNCHANGED <<growler, doc, noid, rx, sx, nzo, admin, made, ids, rjob, tried,
                   call, queue, disk>>

\* except: an incomplete file is retried, anything else is an error
PsnFailed ==
    /\ call.fn = "single" /\ pc = "obj_error"
    /\ ret' = IF HasStartTag(doc) /\ ~HasEndTag(doc)
              THEN <<-2, call.nzo_ids>> ELSE <<-1, call.nzo_ids>>
    /\ pc' = "done"
    /\ UNCHANGED <<growler, doc, noid, rx, sx, nzo, admin, made, ids, rjob, tried,
                   call, queue, disk>>

\* if nzo: the job takes the id of the placeholder and is added
PsnAdd ==
    /\ call.fn = "single" /\ pc = "obj_ok"
    /\ queue' = AddToQueue(queue, call.nzo_id, call.nzbname, call.password)
    /\ call' = [call EXCEPT
                  !.nzo_ids = Append(@, AddedId(queue, call.nzo_id)),
                  !.added = Append(@, AddedId(queue, call.nzo_id))]
    /\ pc' = "psn_remove"
    /\ UNCHANGED <<growler, doc, noid, rx, sx, nzo, admin, made, ids, rjob, tried,
                   disk, ret>>

\* PsnRemoveFile with the OSError of remove_file reported as a failed add.
PsnRemoveFileRetracts ==
    /\ call.fn = "single" /\ pc = "psn_remove"
    /\ IF call.keep THEN disk' = disk /\ ret' = <<0, call.nzo_ids>>
       ELSE \/ disk' = FALSE /\ ret' = <<0, call.nzo_ids>>
            \/ disk' = disk /\ ret' = <<-1, <<>>>>
    /\ pc' = "done"
    /\ UNCHANGED <<growler, doc, noid, rx, sx, nzo, admin, made, ids, rjob, tried,
                   call, queue>>

\* if not keep: remove_file(path), whose OSError is logged; return 0
PsnRemoveFile ==
    /\ call.fn = "single" /\ pc = "psn_remove"
    /\ IF call.keep THEN disk' = disk
       ELSE \/ disk' = FALSE
            \/ disk' = disk      \* OSError
    /\ ret' = <<0, call.nzo_ids>>
    /\ pc' = "done"
    /\ UNCHANGED <<growler, doc, noid, rx, sx, nzo, admin, made, ids, rjob, tried,
                   call, queue>>

ProcessSingleNzb ==
    \/ PsnRead \/ NzbfileParser \/ NzbObject
    \/ PsnDuplicate \/ PsnEmpty \/ PsnFailed \/ PsnAdd \/ PsnRemoveFile

HeadDoc ==
    Prolog \o HeadBlock \o FileBlock("s", <<5>>, "alt.a", <<A1, B2>>)
        \o <<EndNzb>>

\* the documents given to the entry points
IngestDocs == BaseDocs \cup DamagedOf(HeadDoc)

SingleCalls ==
    { [ fn |-> "single", filename |-> src[1], check_bytes |-> src[2],
        keep |-> keep, nzbname |-> <<>>, password |-> "pw",
        nzo_id |-> nzo_id,
        nzo_ids |-> <<>>, added |-> <<>>, queue0 |-> q ] :
      src \in Sources, keep \in BOOLEAN, nzo_id \in {0, FutureId},
      q \in Queues(0) \cup Queues(FutureId) }

InitSingle ==
    /\ doc \in IngestDocs
    /\ noid = 0
    /\ pc = "psn_start"
    /\ NewObject
    /\ admin = {}
    /\ ids = 0
    /\ call \in {c \in SingleCalls : c.queue0 \in Queues(c.nzo_id)}
    /\ queue = call.queue0
    /\ disk = TRUE
    /\ ret = <<>>
    /\ GrowlerLoaded

SpecSingle == InitSingle /\ [][ProcessSingleNzb]_vars

-----------------------------------------------------------------------------
(* The read step of process_single_nzb on names of up to MaxParts parts.   *)

\* most parts in a generated file name
MaxParts == 4

NameParts == {"job", ".nzb", ".gz", ".bz2"}

Names == SeqsUpTo(NameParts, MaxParts) \ {<<>>}

SniffCalls ==
    { [ fn |-> "single", filename |-> name, check_bytes |-> magic,
        keep |-> FALSE, nzbname |-> <<"chosen">>, password |-> "pw",
        nzo_id |-> 0, nzo_ids |-> <<>>, added |-> <<>>, queue0 |-> <<>> ] :
      name \in Names, magic \in {"1f8b", "BZ", "<?"} }

InitSniff ==
    /\ doc = HeadDoc
    /\ noid = 0
    /\ pc = "psn_start"
    /\ NewObject
    /\ admin = {}
    /\ ids = 0
    /\ call \in SniffCalls
    /\ queue = call.queue0
    /\ disk = TRUE
    /\ ret = <<>>
    /\ GrowlerLoaded

SpecSniff == InitSniff /\ [][PsnRead]_vars

-----------------------------------------------------------------------------
(* process_nzb_archive_file(filename, path, keep, nzbname, password,       *)
(* nzo_id)                                                                 *)

\* the members whose name ends in .nzb
NzbCount(names) == Cardinality({i \in 1..Len(names) : names[i].nzb})

\* PnaOpen with all the names of the archive counted, not the .nzb names.
PnaOpenCountsAll ==
    /\ pc = "pna_start"
    /\ \/ \E status \in {-1, 1} :
             /\ ret' = <<status, <<>>>>
             /\ pc' = "done"
             /\ call' = call
       \/ /\ NzbCount(call.names) = 0
          /\ ret' = <<1, call.nzo_ids>>
          /\ pc' = "done"
          /\ call' = call
       \/ /\ NzbCount(call.names) > 0
          /\ call' = [call EXCEPT
                        !.nzbname = IF Len(call.names) # 1 THEN <<>>
                                    ELSE @]
          /\ pc' = "pna_loop"
          /\ ret' = ret
    /\ UNCHANGED <<growler, doc, noid, rx, sx, nzo, admin, made, ids, rjob, tried,
                   queue, disk>>

\* is_archive(path), the count of the .nzb names, "if nzbcount != 1"
PnaOpen ==
    /\ pc = "pna_start"
    /\ \/ \E status \in {-1, 1} :
             /\ ret' = <<status, <<>>>>
             /\ pc' = "done"
             /\ call' = call
       \/ /\ NzbCount(call.names) = 0
          /\ ret' = <<1, call.nzo_ids>>
          /\ pc' = "done"
          /\ call' = call
       \/ /\ NzbCount(call.names) > 0
          /\ call' = [call EXCEPT
                        !.nzbname = IF NzbCount(call.names) # 1 THEN <<>>
                                    ELSE @]
          /\ pc' = "pna_loop"
          /\ ret' = ret
    /\ UNCHANGED <<growler, doc, noid, rx, sx, nzo, admin, made, ids, rjob, tried,
                   queue, disk>>

AtMember == pc = "pna_loop" /\ call.mi <= Len(call.names)
Member == call.names[call.mi]

\* a name that does not end in .nzb
PnaOtherName ==
    /\ AtMember /\ ~Member.nzb
    /\ call' = [call EXCEPT !.mi = @ + 1]
    /\ UNCHANGED <<growler, doc, noid, pc, rx, sx, nzo, admin, made, ids, rjob, tried,
                   queue, disk, ret>>

\* zf.read(name), whose OSError ends the call with -1 and no ids
PnaReadError ==
    /\ AtMember /\ Member.nzb
    /\ ret' = <<-1, <<>>>>
    /\ pc' = "done"
    /\ UNCHANGED <<growler, doc, noid, rx, sx, nzo, admin, made, ids, rjob, tried,
                   call, queue, disk>>

\* zf.read(name) and, "if data:", a new NzbObject for the member
PnaRead ==
    /\ AtMember /\ Member.nzb
    /\ IF Member.data = <<>>
       THEN /\ call' = [call EXCEPT !.mi = @ + 1]
            /\ UNCHANGED <<doc, pc, rx, sx, nzo, made, rjob, tried>>
       ELSE /\ doc' = Member.data
            /\ NewObjectNext
            /\ pc' = "np_start"
            /\ call' = call
    /\ UNCHANGED <<growler, noid, admin, ids, queue, disk, ret>>

\* PnaAdd with the id of the placeholder kept for the members that follow.
PnaAddKeepsId ==
    /\ call.fn = "archive" /\ pc = "obj_ok"
    /\ queue' = AddToQueue(queue, call.nzo_id, call.nzbname, call.password)
    /\ call' = [call EXCEPT
                  !.nzo_ids = Append(@, AddedId(queue, call.nzo_id)),
                  !.added = Append(@, AddedId(queue, call.nzo_id)),
                  !.mi = @ + 1]
    /\ pc' = "pna_loop"
    /\ UNCHANGED <<growler, doc, noid, rx, sx, nzo, admin, made, ids, rjob, tried,
                   disk, ret>>

\* the job was built: it takes the id of the placeholder, once, and is added
PnaAdd ==
    /\ call.fn = "archive" /\ pc = "obj_ok"
    /\ queue' = AddToQueue(queue, call.nzo_id, call.nzbname, call.password)
    /\ call' = [call EXCEPT
                  !.nzo_ids = Append(@, AddedId(queue, call.nzo_id)),
                  !.added = Append(@, AddedId(queue, call.nzo_id)),
                  !.nzo_id = 0,
                  !.mi = @ + 1]
    /\ pc' = "pna_loop"
    /\ UNCHANGED <<growler, doc, noid, rx, sx, nzo, admin, made, ids, rjob, tried,
                   disk, ret>>

\* except (TypeError, ValueError): pass; except: the error is logged
PnaNoJob ==
    /\ call.fn = "archive"
    /\ pc \in {"obj_duplicate", "obj_empty", "obj_error"}
    /\ call' = [call EXCEPT !.mi = @ + 1]
    /\ pc' = "pna_loop"
    /\ UNCHANGED <<growler, doc, noid, rx, sx, nzo, admin, made, ids, rjob, tried,
                   queue, disk, ret>>

\* zf.close(); if not keep: remove_file(path); return status, nzo_ids
PnaReturn ==
    /\ pc = "pna_loop" /\ call.mi > Len(call.names)
    /\ IF call.keep THEN disk' = disk
       ELSE \/ disk' = FALSE
            \/ disk' = disk      \* OSError
    /\ ret' = <<0, call.nzo_ids>>
    /\ pc' = "done"
    /\ UNCHANGED <<growler, doc, noid, rx, sx, nzo, admin, made, ids, rjob, tried,
                   call, queue>>

ProcessNzbArchiveFile ==
    \/ PnaOpen \/ PnaOtherName \/ PnaReadError \/ PnaRead
    \/ NzbfileParser \/ NzbObject
    \/ PnaAdd \/ PnaNoJob \/ PnaReturn

\* the documents in the generated archives: one that the regex parser
\* takes, one with a repeated part that only the tree parser takes, one
\* without files, one that no parser takes, one cut after its only file
ArchiveDocs ==
    { HeadDoc,
      Prolog \o FileBlock("s", <<5>>, "alt.a", <<A1, A1>>) \o <<EndNzb>>,
      Prolog \o <<EndNzb>>,
      Prolog \o F0 \o <<Ws, Blank, Junk>>,
      Prolog \o F0 }

\* the members: the documents, an empty file and a file that is no .nzb
Members ==
    {[nzb |-> TRUE, data |-> d] : d \in ArchiveDocs \cup {<<>>}}
        \cup {[nzb |-> FALSE, data |-> <<>>]}

ArchiveCalls ==
    { [ fn |-> "archive", names |-> names, mi |-> 1,
        keep |-> keep, nzbname |-> name, password |-> "pw",
        nzo_id |-> nzo_id,
        nzo_ids |-> <<>>, added |-> <<>>, queue0 |-> q ] :
      names \in SeqsUpTo(Members, MaxMembers), keep \in BOOLEAN,
      name \in {<<>>, <<"chosen">>}, nzo_id \in {0, FutureId},
      q \in Queues(0) \cup Queues(FutureId) }

InitArchive ==
    /\ doc = <<>>
    /\ noid = 0
    /\ pc = "pna_start"
    /\ NewObject
    /\ admin = {}
    /\ ids = 0
    /\ call \in {c \in ArchiveCalls : c.queue0 \in Queues(c.nzo_id)}
    /\ queue = call.queue0
    /\ disk = TRUE
    /\ ret = <<>>
    /\ GrowlerLoaded

SpecArchive == InitArchive /\ [][ProcessNzbArchiveFile]_vars

-----------------------------------------------------------------------------
(* Either entry point, called on a file or on an archive.                  *)

InitIngest == InitSingle \/ InitArchive

NextIngest == ProcessSingleNzb \/ ProcessNzbArchiveFile

SpecIngest == InitIngest /\ [][NextIngest]_vars

-----------------------------------------------------------------------------
(* growler.py: send_notification, change_value, reset_growl,               *)
(* register_growl and send_growl. Each step reads or writes a global once, *)
(* so that the threads interleave between any two accesses.                *)

\* what growler.py does not touch
ingest == <<doc, noid, pc, rx, sx, nzo, admin, made, ids, rjob, tried,
            call, queue, disk, ret>>

\* bool(_GROWL): None and False are false, a GrowlNotifier is true
IsNotifier(g) == g = "GrowlNotifier"

\* thread t moves to position p
Goto(t, p) == sg' = [sg EXCEPT ![t].pc = p]

\* send_growl returns r (or ends with the exception r) on thread t
Return(t, r) == sg' = [sg EXCEPT ![t].pc = "returned", ![t].ret = r]

\* send_notification without wait: send_growl is started on a new thread
SendNotification(t) ==
    /\ sg[t].pc = "idle"
    /\ Goto(t, "l191")
    /\ UNCHANGED <<_GROWL, _GROWL_REG, cfg, ingest>>

\* change_value()
ChangeValue ==
    /\ _GROWL_REG' = FALSE
    /\ UNCHANGED <<_GROWL, sg, cfg, ingest>>

\* reset_growl(), line 133: _GROWL = None
ResetGrowl133 ==
    /\ cfg = "idle"
    /\ _GROWL' = "None"
    /\ cfg' = "l134"
    /\ UNCHANGED <<_GROWL_REG, sg, ingest>>

\* reset_growl(), line 134: _GROWL_REG = False
ResetGrowl134 ==
    /\ cfg = "l134"
    /\ _GROWL_REG' = FALSE
    /\ cfg' = "idle"
    /\ UNCHANGED <<_GROWL, sg, ingest>>

\* line 191, the test: if not _GROWL_REG
SgTestReg(t) ==
    /\ sg[t].pc = "l191"
    /\ Goto(t, IF _GROWL_REG THEN "l192" ELSE "l191_set")
    /\ UNCHANGED <<_GROWL, _GROWL_REG, cfg, ingest>>

\* line 191, the assignment: _GROWL = None
SgClear(t) ==
    /\ sg[t].pc = "l191_set"
    /\ _GROWL' = "None"
    /\ Goto(t, "l192")
    /\ UNCHANGED <<_GROWL_REG, cfg, ingest>>

\* line 192: if not _GROWL
SgTestGrowl(t) ==
    /\ sg[t].pc = "l192"
    /\ Goto(t, IF IsNotifier(_GROWL) THEN "l194" ELSE "l193")
    /\ UNCHANGED <<_GROWL, _GROWL_REG, cfg, ingest>>

\* line 193: _GROWL, error = register_growl(), which returns the notifier
\* and no error when growler.register() answered None or a bool, else None
\* and the error
SgRegister(t) ==
    /\ sg[t].pc = "l193"
    /\ \E r \in {<<"GrowlNotifier", "None">>, <<"None", "error">>} :
          /\ _GROWL' = r[1]
          /\ sg' = [sg EXCEPT ![t].pc = "l194", ![t].error = r[2],
                              ![t].registers = @ + 1]
    /\ UNCHANGED <<_GROWL_REG, cfg, ingest>>

\* line 194: if _GROWL, else (line 221-222) return error, which raises
\* UnboundLocalError when line 193 never ran in this call
SgIfGrowl(t) ==
    /\ sg[t].pc = "l194"
    /\ IF IsNotifier(_GROWL) THEN Goto(t, "l195")
       ELSE Return(t, IF sg[t].error = "unbound" THEN "UnboundLocalError"
                      ELSE sg[t].error)
    /\ UNCHANGED <<_GROWL, _GROWL_REG, cfg, ingest>>

\* line 195: assert isinstance(_GROWL, GrowlNotifier)
SgAssert(t) ==
    /\ sg[t].pc = "l195"
    /\ IF IsNotifier(_GROWL) THEN Goto(t, "l196")
       ELSE Return(t, "AssertionError")
    /\ UNCHANGED <<_GROWL, _GROWL_REG, cfg, ingest>>

\* line 196: _GROWL_REG = True
SgSetReg(t) ==
    /\ sg[t].pc = "l196"
    /\ _GROWL_REG' = TRUE
    /\ Goto(t, "l201")
    /\ UNCHANGED <<_GROWL, cfg, ingest>>

\* lines 200-219: _GROWL.notify(...) and what is done with its answer: None
\* or a bool, a 401, another answer, or socket.error raised; on None or
\* False the attribute lookup raises and the bare except returns 'Growl
\* error (unknown)'
SgNotify(t) ==
    /\ sg[t].pc = "l201"
    /\ IF ~IsNotifier(_GROWL) THEN Return(t, "error")
       ELSE \E a \in {"ok", "401", "other", "socket.error"} :
               sg' = [sg EXCEPT
                        ![t].notifies = @ + 1,
                        ![t].accepted = @ \/ a = "ok",
                        ![t].pc = IF a = "401" THEN "l209" ELSE "returned",
                        ![t].ret = IF a = "ok" THEN "None"
                                   ELSE IF a = "401" THEN @ ELSE "error"]
    /\ UNCHANGED <<_GROWL, _GROWL_REG, cfg, ingest>>

\* line 209: _GROWL = False after a 401, then the next round of the loop
\* for n in (0, 1), or line 223: return None after the second round
SgUnauthorized(t) ==
    /\ sg[t].pc = "l209"
    /\ _GROWL' = "False"
    /\ IF sg[t].n = 0 THEN sg' = [sg EXCEPT ![t].pc = "l191", ![t].n = 1]
       ELSE Return(t, "None")
    /\ UNCHANGED <<_GROWL_REG, cfg, ingest>>

InitGrowl ==
    /\ doc = <<>>
    /\ noid = 0
    /\ pc = "np_start"
    /\ NewObject
    /\ admin = {}
    /\ ids = 0
    /\ call = NoCall
    /\ queue = <<>>
    /\ disk = TRUE
    /\ ret = <<>>
    /\ GrowlerLoaded

NextGrowl ==
    \/ \E t \in DOMAIN sg :
          \/ SendNotification(t)
          \/ SgTestReg(t) \/ SgClear(t) \/ SgTestGrowl(t) \/ SgRegister(t)
          \/ SgIfGrowl(t) \/ SgAssert(t) \/ SgSetReg(t) \/ SgNotify(t)
          \/ SgUnauthorized(t)
    \/ ChangeValue
    \/ ResetGrowl133 \/ ResetGrowl134

SpecGrowl == InitGrowl /\ [][NextGrowl]_vars

-----------------------------------------------------------------------------
(* The order of the two parsers.                                           *)

Attempted(p) == \E i \in 1..Len(tried) : tried[i] = p

-----------------------------------------------------------------------------
(* The two parsers compared.                                               *)

GroupSet(job) == {job.groups[i] : i \in 1..Len(job.groups)}

\* C5: when the regex parser returned success and the tree parser returned
\* too, on the same document and each on a new job, the two jobs have the
\* same dedup hash, the same set of groups and the same total bytes.
C5_SameJob ==
    pc = "np_returned" /\ rjob.success =>
        /\ nzo.md5sum = rjob.nzo.md5sum
        /\ GroupSet(nzo) = GroupSet(rjob.nzo)
        /\ nzo.bytes = rjob.nzo.bytes

\* Both parsers have returned on a document with a segment id that holds an
\* entity, and the two jobs differ in their dedup hash only.
C5_Witness ==
    /\ pc = "np_returned" /\ rjob.success
    /\ nzo.md5sum # rjob.nzo.md5sum
    /\ GroupSet(nzo) = GroupSet(rjob.nzo)
    /\ nzo.bytes = rjob.nzo.bytes /\ nzo.bytes > 0

-----------------------------------------------------------------------------
(* The average timestamp.                                                  *)

RECURSIVE SumDates(_, _)
SumDates(files, i) ==
    IF i > Len(files) THEN 0 ELSE files[i].date + SumDates(files, i + 1)

\* C6: when nzbfile_parser returns, the average timestamp of a job without
\* files is the current time, and that of a job with files is the sum of
\* the files' timestamps divided by their number.
C6_AvgStamp ==
    pc = "np_returned" =>
        /\ nzo.avg_stamp.n > 0
        /\ IF Len(nzo.files) = 0
           THEN nzo.avg_stamp.sum = TimeNow * nzo.avg_stamp.n
           ELSE nzo.avg_stamp.sum * Len(nzo.files)
                    = SumDates(nzo.files, 1) * nzo.avg_stamp.n

\* nzbfile_parser has returned a job without files whose average timestamp
\* is 0, and not the current time.
C6_Witness ==
    /\ pc = "np_returned" /\ Len(nzo.files) = 0
    /\ nzo.avg_stamp = [sum |-> 0, n |-> 1]

-----------------------------------------------------------------------------
(* The segment sizes.                                                      *)

GoodSize(size) == 0 < size /\ size < 2^23

TableGood(db) == \A p \in DOMAIN db : GoodSize(db[p][2])

FilesGood(job) ==
    \A i \in 1..Len(job.files) :
        \A j \in 1..Len(job.files[i].articles) :
            GoodSize(job.files[i].articles[j][2])

AllSizesGood ==
    /\ TableGood(rx.raw_article_db) /\ TableGood(sx.raw_article_db)
    /\ FilesGood(nzo) /\ FilesGood(rjob.nzo)

RejectedSizes == {<<0>>, <<-1>>, <<2^23>>}

AtRxSegment == InBody /\ Line.k = "segment"
AtSxSegment == pc = "xml_segs" /\ sx.si <= Len(sx.segs)
SxLine == doc[sx.segs[sx.si]]

\* A step at a segment that declares 0, -1 or 2^23 bytes leaves the segment
\* table and the file's bytes as they are (and the regex parser fails); a
\* step at a segment that declares 2^23 - 1 bytes under a part number that
\* is new to the file enters it and adds its bytes.
SizeStep ==
    /\ AtRxSegment /\ Line.bytes \in RejectedSizes =>
          /\ rx'.raw_article_db = rx.raw_article_db
          /\ rx'.file_bytes = rx.file_bytes
          /\ rx'.success = 0
    /\ AtSxSegment /\ SxLine.bytes \in RejectedSizes =>
          /\ sx'.raw_article_db = sx.raw_article_db
          /\ sx'.file_bytes = sx.file_bytes
    /\ ( /\ AtRxSegment /\ Line.bytes = <<2^23 - 1>>
         /\ rx.open_file_tag = 1 /\ Line.number # NoInt
         /\ Line.number[1] \notin DOMAIN rx.raw_article_db ) =>
          /\ rx'.success = 1
          /\ Line.number[1] \in DOMAIN rx'.raw_article_db
          /\ rx'.raw_article_db[Line.number[1]] = <<Line.text, 2^23 - 1>>
          /\ rx'.file_bytes = rx.file_bytes + 2^23 - 1
    /\ ( /\ AtSxSegment /\ SxLine.bytes = <<2^23 - 1>>
         /\ SxLine.number # NoInt
         /\ SxLine.number[1] \notin DOMAIN sx.raw_article_db ) =>
          /\ SxLine.number[1] \in DOMAIN sx'.raw_article_db
          /\ sx'.raw_article_db[SxLine.number[1]]
                = <<XmlText(SxLine.text), 2^23 - 1>>
          /\ sx'.file_bytes = sx.file_bytes + 2^23 - 1

\* C7: on both parser paths a segment that declares 0, -1 or 2^23 bytes is
\* never entered into the segment table nor added to the file's bytes, a
\* segment that declares 2^23 - 1 bytes is entered, and every segment of
\* every table and of every file of the job has 0 < size < 2^23.
C7_Sizes == []AllSizesGood /\ [][SizeStep]_vars

\* The tree parser has rejected a bad segment and accepted, in the same
\* file, a segment of 2^23 - 1 bytes.
C7_Witness ==
    /\ nzo.bad_articles > 0
    /\ \E i \in 1..Len(nzo.files) :
          \E j \in 1..Len(nzo.files[i].articles) :
              nzo.files[i].articles[j][2] = 2^23 - 1

-----------------------------------------------------------------------------
(* The rollback of the regex parser.                                       *)

\* C8: when the regex parser has returned failure the job has no files, an
\* empty file table and zero byte counters, and no NzbFile created in the
\* pass has its data left in the admin_path.
C8_RolledBack ==
    pc = "rx_false" =>
        /\ nzo.files = <<>> /\ nzo.files_table = <<>>
        /\ nzo.bytes = 0 /\ nzo.bytes_par2 = 0
        /\ \A i \in 1..Len(made) : made[i] \notin admin

\* The regex parser has returned failure after it dropped a file element
\* that occurred twice, and the data of the dropped NzbFile is still there.
C8_Witness ==
    /\ pc = "rx_false" /\ nzo.files = <<>> /\ nzo.bytes = 0
    /\ Len(made) = 2 /\ made[1] \notin admin /\ made[2] \in admin

-----------------------------------------------------------------------------
(* A file element that occurs twice.                                       *)

HasFile(job, name, articles) ==
    \E i \in 1..Len(job.files) :
        job.files[i].filename = name /\ job.files[i].articles = articles

\* the regex parser is at the </file> of a file that the job has already
AtRxTwin ==
    /\ InBody /\ Line.k = "endfile"
    /\ rx.open_file_tag = 1 /\ rx.file_name # ""
    /\ HasFile(nzo, rx.file_name, SortedArticles(rx.raw_article_db))

\* the tree parser is at the end of a file that the job has already
AtSxTwin ==
    /\ pc = "xml_segs" /\ sx.si > Len(sx.segs)
    /\ HasFile(nzo, sx.file_name, SortedArticles(sx.raw_article_db))

\* C9: the step that ends a file element with the subject and the segments
\* of a file already in the job leaves the job's file list, file table and
\* total bytes unchanged, and the parser goes on with the next line or
\* element: no failure, and no file counted as skipped.
C9_TwinDropped ==
    [][ /\ AtRxTwin => /\ nzo' = nzo
                       /\ rx'.success = 1 /\ pc' = "rx_body"
                       /\ rx'.valid_files = rx.valid_files
        /\ AtSxTwin => /\ nzo' = nzo
                       /\ pc' = "xml_files" /\ sx'.fi = sx.fi + 1
                       /\ sx'.skipped_files = sx.skipped_files
                       /\ sx'.valid_files = sx.valid_files ]_vars

\* The regex parser has returned success on a document with two file
\* elements, the second of which was dropped.
C9_Witness ==
    /\ pc = "rx_true" /\ Len(made) = 2 /\ made[2] # 0
    /\ Len(nzo.files) = 1 /\ nzo.bytes = nzo.files[1].bytes

-----------------------------------------------------------------------------
(* A part number that occurs twice in a file.                              *)

\* the regex parser is at a segment whose part number the file has already
AtRxRepeat ==
    /\ AtRxSegment /\ rx.open_file_tag = 1
    /\ Line.bytes # NoInt /\ Line.number # NoInt
    /\ Line.number[1] \in DOMAIN rx.raw_article_db

\* the tree parser is at a segment whose part number the file has already
AtSxRepeat ==
    /\ AtSxSegment
    /\ SxLine.bytes # NoInt /\ SxLine.number # NoInt
    /\ SxLine.number[1] \in DOMAIN sx.raw_article_db

\* the file elements with a subject, each with the name the tree gives it
NamedFiles ==
    {XmlText(doc[p].subject) : p \in {q \in 1..Len(doc) :
                                    doc[q].k = "file" /\ doc[q].subject # ""}}

-----------------------------------------------------------------------------
(* The status the entry points return.                                     *)

Returned(fn) == call.fn = fn /\ ret # <<>>

InQueue(id) == \E i \in 1..Len(queue) : queue[i].nzo_id = id /\ ~queue[i].future

\* C1: when process_single_nzb returns 0, the call has produced one job and
\* added it to the queue, and the id list it returns holds that job's id.
C1_OkOneJob ==
    Returned("single") /\ ret[1] = 0 =>
        /\ Len(ret[2]) = 1
        /\ call.added = ret[2]
        /\ InQueue(ret[2][1])

\* process_single_nzb has returned 0 for a duplicate: no id is returned, the
\* queue is as it was, and the file is removed.
C1_Witness ==
    /\ Returned("single") /\ ret = <<0, <<>>>>
    /\ queue = call.queue0 /\ ~disk /\ ~call.keep

\* C2: for a document with a start tag and no end tag, process_single_nzb
\* returns -2 and no ids, with the queue as it was and the file in place.
C2_TruncatedRetry ==
    Returned("single") /\ HasStartTag(doc) /\ ~HasEndTag(doc) =>
        /\ ret = <<-2, <<>>>>
        /\ queue = call.queue0
        /\ disk

\* process_single_nzb has returned 0 for a document without end tag, with
\* the job in the queue and the file removed.
C2_Witness ==
    /\ Returned("single") /\ HasStartTag(doc) /\ ~HasEndTag(doc)
    /\ ret[1] = 0 /\ Len(ret[2]) = 1 /\ InQueue(ret[2][1]) /\ ~disk

\* C3: for an archive with two or more .nzb members,
\* process_nzb_archive_file returns 0 exactly when a member's job was added
\* to the queue.
C3_ArchiveOk ==
    Returned("archive") /\ NzbCount(call.names) >= 2 =>
        (ret[1] = 0 <=> call.added # <<>>)

\* process_nzb_archive_file has returned -1 and no ids after the job of an
\* earlier member was added to the queue.
C3_Witness ==
    /\ Returned("archive") /\ NzbCount(call.names) >= 2
    /\ ret = <<-1, <<>>>> /\ call.added # <<>>
    /\ InQueue(call.added[1])

-----------------------------------------------------------------------------
(* The encoding in the header.                                             *)

\* number of non-blank lines among the first i lines
NonBlankUpTo(d, i) == Cardinality({j \in 1..i : d[j].k # "blank"})

\* one of the first 10 non-blank lines declares an encoding
DeclaresEncoding(d) ==
    \E i \in 1..Len(d) :
        d[i].k = "xmldecl" /\ d[i].enc /\ NonBlankUpTo(d, i) <= 10

\* C11: on a document that declares no encoding in its first 10 non-blank
\* lines the regex parser never reaches the body loop and never returns
\* success: it ends in failure, with no NzbFile created and no file in the
\* job when it returns.
C11_NoEncodingFails ==
    ~DeclaresEncoding(doc) =>
        /\ pc \notin {"rx_body", "rx_true"} /\ ~rjob.success
        /\ pc = "rx_end" => rx.success = 0
        /\ pc = "rx_false" => nzo.files = <<>> /\ made = <<>>

\* The regex parser has failed on a document without encoding, and the tree
\* parser has taken the file of the document.
C11_Witness ==
    /\ ~DeclaresEncoding(doc)
    /\ pc = "np_returned" /\ tried = <<"regex", "tree">>
    /\ ~rjob.success /\ Len(nzo.files) = 1

-----------------------------------------------------------------------------
(* The file after an ignored ingestion.                                    *)

\* C12: when process_single_nzb or process_nzb_archive_file returns 1, the
\* file is removed if keep is false, and in place if keep is true.
C12_IgnoreDisposes ==
    ret # <<>> /\ ret[1] = 1 => (disk <=> call.keep)

\* process_single_nzb has returned 1 for a document without files, with
\* keep false and the file still in place.
C12_Witness ==
    /\ Returned("single") /\ ret = <<1, <<>>>>
    /\ nzo.files = <<>> /\ ~call.keep /\ disk

-----------------------------------------------------------------------------
(* The file that cannot be read.                                           *)

\* process_single_nzb has returned from the read of the file
ReadFailed == Returned("single") /\ tried = <<>>

\* C13: the step in which the read of the file fails returns -2 and no ids
\* and changes nothing else; once returned, no job is constructed, the
\* queue and the admin_path are as they were and the file is in place.
C13_ReadFailure ==
    /\ [][pc = "psn_start" /\ pc' # "np_start" =>
            /\ ret' = <<-2, <<>>>> /\ pc' = "done"
            /\ UNCHANGED <<nzo, queue, disk, admin, made, ids, call>>]_vars
    /\ [](ReadFailed =>
            /\ ret = <<-2, <<>>>>
            /\ nzo = EmptyNzo /\ made = <<>> /\ admin = {}
            /\ queue = call.queue0 /\ disk)

\* The read has failed with keep false and a placeholder job in the queue.
C13_Witness ==
    /\ ReadFailed /\ ret = <<-2, <<>>>> /\ ~call.keep /\ disk
    /\ call.nzo_id = FutureId
    /\ \E i \in 1..Len(queue) : queue[i].nzo_id = FutureId /\ queue[i].future

-----------------------------------------------------------------------------
(* The file that cannot be removed.                                        *)

\* every id in ids is that of a job in the queue q
AllQueued(ids_, q) ==
    \A i \in 1..Len(ids_) :
        \E j \in 1..Len(q) : q[j].nzo_id = ids_[i] /\ ~q[j].future

\* C14: when the removal of the file fails at the end of
\* process_single_nzb or process_nzb_archive_file after a job was added,
\* the call returns 0 with the ids of the jobs it added, and the queue is
\* left as it is, with those jobs in it.
C14_RemovalFailure ==
    [][ ( /\ pc \in {"psn_remove", "pna_loop"} /\ pc' = "done"
          /\ call.added # <<>> /\ ~call.keep /\ disk /\ disk'
          /\ ~(AtMember /\ Member.nzb) )
        => ( /\ ret' = <<0, call.added>>
             /\ queue' = queue
             /\ AllQueued(call.added, queue') ) ]_vars

\* process_nzb_archive_file has returned 0 and the ids of two jobs, both in
\* the queue, with keep false and the archive still in place.
C14_Witness ==
    /\ Returned("archive") /\ ret[1] = 0 /\ Len(ret[2]) = 2
    /\ ~call.keep /\ disk
    /\ AllQueued(ret[2], queue)

-----------------------------------------------------------------------------
(* The ids process_nzb_archive_file returns.                               *)

\* C15: when process_nzb_archive_file returns, the ids it returns are those
\* of the jobs the call added to the queue, one for each, in the order of
\* the members.
C15_IdsReturned ==
    Returned("archive") => ret[2] = call.added

\* process_nzb_archive_file has returned no id although the job of the
\* first member is in the queue: the read of the second member failed.
C15_Witness ==
    /\ Returned("archive") /\ ret[2] = <<>>
    /\ Len(call.added) = 1 /\ InQueue(call.added[1])
    /\ call.mi = 2 /\ Len(call.names) = 2

-----------------------------------------------------------------------------
(* The chosen name of the job of an archive member.                        *)

\* C16: process_nzb_archive_file keeps the nzbname it was called with when
\* the archive has exactly one .nzb name and sets it to None otherwise; the
\* name is not changed afterwards, and every job the call adds to the queue
\* has been built with it.
C16_ChosenName ==
    [][ /\ (pc = "pna_start" /\ pc' = "pna_loop") =>
              call'.nzbname = IF NzbCount(call.names) = 1
                              THEN call.nzbname ELSE <<>>
        /\ (call.fn = "archive" /\ pc # "pna_start") =>
              call'.nzbname = call.nzbname
        /\ (call.fn = "archive" /\ pc = "obj_ok") =>
              /\ Len(queue') > 0
              /\ queue'[Len(queue')].nzbname = call.nzbname ]_vars

\* The one .nzb member of an archive of two members has been queued under
\* the chosen name.
C16_Witness ==
    /\ Returned("archive") /\ Len(call.names) = 2
    /\ NzbCount(call.names) = 1 /\ Len(call.added) = 1
    /\ queue[Len(queue)].nzo_id = call.added[1]
    /\ queue[Len(queue)].nzbname = <<"chosen">>

-----------------------------------------------------------------------------
(* The reader and the file name chosen from the first two bytes.           *)

EndsWith(name, ext) ==
    Len(name) >= 2 /\ name[Len(name) - 1] = ".nzb" /\ name[Len(name)] = ext

\* the name without its last part
Stripped(name) == SubSeq(name, 1, Len(name) - 1)

\* the name as the claim has it: the suffix that goes with the first two
\* bytes is stripped, and nothing else is changed
SuffixStripped(check_bytes, name) ==
    IF check_bytes = "1f8b" /\ EndsWith(name, ".gz") THEN Stripped(name)
    ELSE IF check_bytes = "BZ" /\ EndsWith(name, ".bz2") THEN Stripped(name)
    ELSE name

\* C17: the read step of process_single_nzb takes gzip for the bytes 1f 8b,
\* bz2 for BZ and the plain reader otherwise, whatever the name, and changes
\* the name only by stripping .gz from a name that ends in .nzb.gz under
\* gzip and .bz2 from a name that ends in .nzb.bz2 under bz2; a name that
\* ends in .nzb is unchanged.
C17_Sniffer ==
    [][ (pc = "psn_start" /\ pc' = "np_start") =>
          /\ Handler(call.check_bytes) =
                CASE call.check_bytes = "1f8b" -> "gzip.GzipFile"
                  [] call.check_bytes = "BZ" -> "bz2.BZ2File"
                  [] OTHER -> "open"
          /\ call'.filename = SuffixStripped(call.check_bytes, call.filename)
          /\ call.filename[Len(call.filename)] = ".nzb" =>
                call'.filename = call.filename ]_vars

-----------------------------------------------------------------------------
(* The dedup hash.                                                         *)

\* the hash of the ids in that order: md5 over their concatenation
RECURSIVE HashOf(_)
HashOf(ids_) == IF ids_ = <<>> THEN "" ELSE Head(ids_) \o HashOf(Tail(ids_))

\* the ids of the segments accepted into the files of the job, in the order
\* they were accepted, by the parser that returned
AcceptedIds == IF rjob.success THEN rx.accepted ELSE sx.accepted

\* C18: when nzbfile_parser returns, the job's hash is that of the ids of
\* the segments accepted into the files of the job, in the order they were
\* accepted, and of no other id.
C18_HashOfAccepted ==
    pc = "np_returned" => nzo.md5sum = HashOf(AcceptedIds)

\* The tree parser has returned a job whose one file has the one segment
\* "a", and whose hash also covers the id of a segment of a bad size.
C18_Witness ==
    /\ pc = "np_returned" /\ ~rjob.success
    /\ Len(nzo.files) = 1 /\ nzo.files[1].articles = <<(<<"a", 100>>)>>
    /\ sx.accepted = <<"a">> /\ nzo.bad_articles = 1
    /\ nzo.md5sum = "az"

-----------------------------------------------------------------------------
(* A repeated part number in the tree parser.                              *)

\* the id the segment table has for the part number of the segment element
\* the tree parser is at
FirstSeenId == sx.raw_article_db[SxLine.number[1]][1]

\* C19: the step of the tree parser at a segment whose part number the file
\* has already leaves the segment table, with the first id and size, and
\* the file's bytes unchanged; it adds one to duplicate_articles when the
\* id of the segment is not the first one and leaves the counter unchanged
\* when it is; bad_articles is unchanged.
C19_FirstSeenWins ==
    [][ AtSxRepeat =>
          /\ sx'.raw_article_db = sx.raw_article_db
          /\ sx'.file_bytes = sx.file_bytes
          /\ sx'.si = sx.si + 1
          /\ nzo'.bad_articles = nzo.bad_articles
          /\ nzo'.duplicate_articles =
                IF XmlText(SxLine.text) # FirstSeenId
                THEN nzo.duplicate_articles + 1
                ELSE nzo.duplicate_articles ]_vars

\* The tree parser has returned the file with part 1 as first seen, "a",
\* after a second part 1 with another id was counted.
C19_Witness ==
    /\ pc = "np_returned" /\ Attempted("tree")
    /\ nzo.duplicate_articles = 1 /\ nzo.bad_articles = 0
    /\ Len(nzo.files) = 1
    /\ nzo.files[1].articles = <<(<<"a", 100>>)>>
    /\ nzo.files[1].bytes = 100

-----------------------------------------------------------------------------
(* The fatal lines of the regex parser.                                    *)

\* the first line of the body loop
BodyStart == HeaderScan(doc, 1, 0, FALSE).pos

\* open_file_tag when the body loop comes to line i, from the file and
\* /file lines before it
RECURSIVE OpenAt(_)
OpenAt(i) ==
    IF i <= BodyStart THEN 0
    ELSE IF doc[i - 1].k = "file" THEN 1
    ELSE IF doc[i - 1].k = "endfile" THEN 0
    ELSE OpenAt(i - 1)

\* line i is a segment outside a file, a file inside a file, a /file
\* outside a file, or a line of no known shape
FatalAt(i) ==
    \/ doc[i].k = "segment" /\ OpenAt(i) = 0
    \/ doc[i].k = "file" /\ OpenAt(i) = 1
    \/ doc[i].k = "endfile" /\ OpenAt(i) = 0
    \/ doc[i].k \in {"junk", "xmldecl"}

\* the regex parser is about to read such a line
AtFatal == InBody /\ FatalAt(rx.pos) /\ OpenAt(rx.pos) = rx.open_file_tag

-----------------------------------------------------------------------------
(* The tree parser and the units it cannot use.                            *)

InTree == pc \in {"xml_files", "xml_segs"}

\* the tree parser is at a segment element it cannot use: an attribute is
\* missing, the part number is in the table already, or the size is bad
AtSxBadSegment ==
    /\ AtSxSegment
    /\ \/ SxLine.bytes = NoInt \/ SxLine.number = NoInt
       \/ SxLine.number[1] \in DOMAIN sx.raw_article_db
       \/ BadSize(SxLine.bytes[1])

\* the tree parser is at the end of a file element that has no subject or
\* whose NzbFile gets no id
AtSxBadFile ==
    /\ pc = "xml_segs" /\ sx.si > Len(sx.segs)
    /\ sx.file_name = "" \/ NewNzfId(Len(made)) = 0

\* the tree parser is at a file element without a date it can read
AtSxNoDate ==
    /\ pc = "xml_files" /\ sx.fi <= Len(sx.files)
    /\ doc[sx.files[sx.fi]].date = NoInt

\* C21: once the tree is loaded the tree parser raises no error: a segment
\* element it cannot use is passed over and the next one is taken, a file
\* element without a date gets the current time, a file that cannot be
\* imported is counted as skipped and the next one is taken, some step is
\* always possible until the parser returns (the next file element is
\* there to be taken, whose step has no other condition, or one of the
\* other steps is enabled), and when it returns the final bookkeeping has
\* set the hash and the average timestamp.
C21_SkippedLocally ==
    /\ [][ /\ InTree => pc' \in {"xml_files", "xml_segs", "np_returned"}
           /\ AtSxBadSegment =>
                /\ pc' = "xml_segs" /\ sx'.si = sx.si + 1
                /\ sx'.raw_article_db = sx.raw_article_db
                /\ nzo'.files = nzo.files
           /\ AtSxNoDate =>
                pc' = "xml_segs" /\ sx'.file_timestamp = TimeNow
           /\ AtSxBadFile =>
                /\ pc' = "xml_files" /\ sx'.fi = sx.fi + 1
                /\ sx'.skipped_files = sx.skipped_files + 1
                /\ nzo'.files = nzo.files ]_vars
    /\ [](InTree =>
            \/ pc = "xml_files" /\ sx.fi <= Len(sx.files)
            \/ ENABLED (XmlReturn \/ XmlSegment \/ XmlFileEnd))
    /\ [](pc = "np_returned" /\ Attempted("tree") =>
            /\ nzo.md5sum = sx.md5
            /\ nzo.avg_stamp.n = Max(1, Len(nzo.files)))

\* The tree parser has returned a job with one file after it skipped a file
\* and passed over a segment of a bad size.
C21_Witness ==
    /\ pc = "np_returned" /\ Attempted("tree")
    /\ sx.skipped_files = 1 /\ nzo.bad_articles = 1
    /\ Len(nzo.files) = 1 /\ nzo.md5sum # NoSum

-----------------------------------------------------------------------------
(* The byte counts.                                                        *)

\* the sum of the sizes of the (id, size) entries
RECURSIVE SumSizes(_)
SumSizes(articles) ==
    IF articles = <<>> THEN 0 ELSE Head(articles)[2] + SumSizes(Tail(articles))

\* the sum of the bytes of the files
RECURSIVE SumBytes(_)
SumBytes(files) ==
    IF files = <<>> THEN 0 ELSE Head(files).bytes + SumBytes(Tail(files))

\* C22: in every state of nzbfile_parser, with either parser at work and
\* after the regex parser's rollback, nzo.bytes is the sum of the bytes of
\* the files in nzo.files, the bytes of each file are the sum of the sizes
\* in its segment table, and the bytes of the file being read are the sum
\* of the sizes entered so far.
C22_Bytes ==
    /\ nzo.bytes = SumBytes(nzo.files)
    /\ \A i \in 1..Len(nzo.files) :
          nzo.files[i].bytes = SumSizes(nzo.files[i].articles)
    /\ \A id \in DOMAIN nzo.files_table :
          nzo.files_table[id].bytes = SumSizes(nzo.files_table[id].articles)
    /\ rx.file_bytes = SumSizes(SortedArticles(rx.raw_article_db))
    /\ sx.file_bytes = SumSizes(SortedArticles(sx.raw_article_db))

\* The job has two files, one of them with the two segments of 100 and of
\* 2^23 - 1 bytes.
C22_Witness ==
    /\ pc = "np_returned" /\ Len(nzo.files) = 2
    /\ nzo.bytes = 100 + 100 + 2^23 - 1

-----------------------------------------------------------------------------
(* The end of the input in the regex parser.                               *)

\* C23: when the regex parser returns True, the last line it has read is
\* the </nzb> line, and no file is open.
C23_EndTagNeeded ==
    pc = "rx_true" =>
        /\ (rx.pos - 1) \in DOMAIN doc
        /\ doc[rx.pos - 1].k = "endnzb"
        /\ rx.open_file_tag = 0

\* The regex parser has returned True on an input without </nzb> line that
\* ends inside a file element.
C23_Witness ==
    /\ pc = "rx_true" /\ ~HasEndTag(doc)
    /\ rx.open_file_tag = 1 /\ rx.pos = Len(doc) + 1
    /\ rx.raw_article_db # <<>>

-----------------------------------------------------------------------------
(* The meta data after both parsers.                                       *)

\* the meta mapping with one value for each meta element of the document
\* that has a type and a text, in document order
DocMeta ==
    HeadMeta(doc, Ascending({p \in 1..Len(doc) : doc[p].k = "meta"}), 1,
             EmptyNzo.meta)

\* C24: when nzbfile_parser returns after the regex parser failed and the
\* tree parser parsed the document, nzo.meta has one value for each meta
\* element with a type and a text, in document order.
C24_MetaOnce ==
    pc = "np_returned" /\ tried = <<"regex", "tree">> => nzo.meta = DocMeta

\* The tree parser has returned after the regex parser failed, and the
\* password of the one meta element is in nzo.meta twice.
C24_Witness ==
    /\ pc = "np_returned" /\ tried = <<"regex", "tree">>
    /\ DocMeta["password"] = <<"pw">>
    /\ nzo.meta["password"] = <<"pw", "pw">>

-----------------------------------------------------------------------------
(* The notifier under concurrent send_growl calls.                         *)

\* C25: in every interleaving of send_growl calls with change_value and
\* reset_growl, a thread that has passed the test of line 194 finds a
\* GrowlNotifier in _GROWL at the assert of line 195 and at the notify call
\* of line 201, and _GROWL_REG is true only while _GROWL is a registered
\* GrowlNotifier.
C25_RegisteredNotifier ==
    /\ \A t \in DOMAIN sg :
          sg[t].pc \in {"l195", "l201"} => IsNotifier(_GROWL)
    /\ _GROWL_REG => IsNotifier(_GROWL)

\* A thread has passed the test of line 194 and stands at the assert of line
\* 195 while reset_growl has put None in _GROWL and has not finished.
C25_Witness ==
    \E t \in DOMAIN sg :
        /\ sg[t].pc = "l195" /\ _GROWL = "None" /\ cfg = "l134"
        /\ \A u \in DOMAIN sg \ {t} : sg[u].pc = "idle"

-----------------------------------------------------------------------------
(* What send_growl returns.                                                *)

\* C26: a send_growl call that has returned None had a notify call
\* accepted; a call that ends without an accepted notify call has returned
\* an error value; and a call makes at most two register_growl calls and
\* at most two notify calls.
C26_ReturnValue ==
    \A t \in DOMAIN sg :
        /\ sg[t].pc = "returned" /\ sg[t].ret = "None" => sg[t].accepted
        /\ sg[t].pc = "returned" /\ ~sg[t].accepted => sg[t].ret = "error"
        /\ sg[t].registers <= 2 /\ sg[t].notifies <= 2

\* A send_growl call that ran alone has returned None after two notify
\* calls that were both answered with 401.
C26_Witness ==
    \E t \in DOMAIN sg :
        /\ sg[t].pc = "returned" /\ sg[t].ret = "None"
        /\ sg[t].notifies = 2 /\ ~sg[t].accepted
        /\ \A u \in DOMAIN sg \ {t} : sg[u].pc = "idle"
        /\ cfg = "idle"

-----------------------------------------------------------------------------
(* The id of the placeholder.                                              *)

\* the placeholder with this id is in the queue
HasPlaceholder(id) ==
    \E i \in 1..Len(queue) : queue[i].nzo_id = id /\ queue[i].future

\* the jobs in the queue q that have this id
WithId(q, id) == {i \in 1..Len(q) : q[i].nzo_id = id}

\* the call has returned after a failed read of the file, of the archive or
\* of a member, and has added no job
IoFailed ==
    \/ ReadFailed
    \/ Returned("archive") /\ ret[1] = -1 /\ call.added = <<>>

\* C27: no two jobs in the queue have the same id; the step that adds a job
\* while a placeholder id is at hand leaves one job with that id in the
\* queue, the new one, and the placeholder is gone; of the jobs added from
\* an archive only the first has the placeholder's id, the others have ids
\* of their own and all are in the queue; and after a call that added no
\* job because a read failed the placeholder is still in the queue.
C27_PlaceholderId ==
    /\ [](\A i, j \in 1..Len(queue) :
             queue[i].nzo_id = queue[j].nzo_id => i = j)
    /\ [][(call.added' # call.added /\ call.nzo_id # 0) =>
             (/\ ~HasPlaceholder(call.nzo_id)'
              /\ Cardinality(WithId(queue', call.nzo_id)) = 1
              /\ queue'[Len(queue')] = Queued(call.nzo_id, call.nzbname,
                                             call.password)
              /\ call.added' = <<call.nzo_id>>)]_vars
    /\ [](call.fn = "archive" =>
             /\ \A i \in 2..Len(call.added) : call.added[i] # FutureId
             /\ \A i, j \in 1..Len(call.added) :
                   call.added[i] = call.added[j] => i = j
             /\ AllQueued(call.added, queue))
    /\ [](IoFailed /\ call.nzo_id # 0 => HasPlaceholder(call.nzo_id))

\* An archive call with a placeholder id has returned after adding two
\* jobs: the first has the placeholder's id, the second an id of its own.
C27_Witness ==
    /\ Returned("archive") /\ Len(call.added) = 2
    /\ ~HasPlaceholder(FutureId)
    /\ call.added[1] = FutureId /\ call.added[2] # FutureId
    /\ AllQueued(call.added, queue)

====
